---- MODULE Spec2Model ----
(***************************************************************************)
(* A model of the Identity Disk storage-and-index engine (src/src/lib.rs, *)
(* src/src/models.rs, src/src/errors.rs): one SQLite store on disk, one   *)
(* IdentityDisk instance at a time, and the operations of its public      *)
(* interface.                                                              *)
(*                                                                         *)
(* Strings the code inspects character by character (model signatures)    *)
(* are sequences of one-character strings.  An f32 is its IEEE-754 bit    *)
(* pattern, held as its three fields (sign s, 1 bit; biased exponent e,   *)
(* 8 bits; fraction m, 23 bits); a vector is a sequence of f32; a blob is *)
(* a sequence of bytes.  A chunk_id (a v4 UUID in the code) is a  *)
(* natural drawn from ChunkIds; ORDER BY chunk_id is numeric order.       *)
(***************************************************************************)
EXTENDS Integers, Sequences, FiniteSets, TLC

(***************************************************************************)
(* Bounds of the model.                                                    *)
(***************************************************************************)
\* how many distinct chunk ids Uuid::new_v4 can draw
MaxChunks == 2

ChunkIds == 1..MaxChunks

(***************************************************************************)
(* Input domains.                                                          *)
(***************************************************************************)
SigDemo == <<"d", "e", "m", "o", "-", "4", "_", "f", "p", "3", "2">>
SigInt8 == <<"m", "_", "i", "n", "t", "8">>
SigPlain == <<"m">>
Signatures == {SigDemo, SigInt8, SigPlain}

\* f32 bit patterns: 0.0 = 0x00000000, 1.0 = 0x3F800000, 2.0 = 0x40000000
F32 ==
    [zero |-> [s |-> 0, e |-> 0, m |-> 0],
     one |-> [s |-> 0, e |-> 127, m |-> 0],
     two |-> [s |-> 0, e |-> 128, m |-> 0]]
VecE1 == <<F32.one, F32.zero, F32.zero, F32.zero>>
VecE2 == <<F32.zero, F32.two, F32.zero, F32.zero>>
Vectors == {VecE1, VecE2}
\* a vector of another length than VecE1 and VecE2
VecShort == <<F32.one, F32.zero>>
\* the values of top_k search is called with
TopKs == {1, 2}


\* serde_json values: the JSON null, the empty object and the object {"a":1}
JsonNull == [t |-> "null"]
JsonEmptyObject == [t |-> "object", kv |-> <<>>]
JsonA1 == [t |-> "object", kv |-> <<<<"a", 1>>>>]
JsonValues == {JsonNull, JsonEmptyObject, JsonA1}
\* Option<Json>: None, or Some(j)
NoneJson == [t |-> "None"]
OptionJson == {NoneJson, JsonA1}
\* the calls of add_chunk: content, embedding, metadata
AddInputs == {<<"hello world", VecE1, JsonA1>>, <<"x", VecE2, NoneJson>>}
\* a call of add_chunk with the vector of another length
AddShort == <<"x", VecShort, NoneJson>>
\* the values update_chunk_metadata is called with
UpdateJson == {JsonA1}

(***************************************************************************)
(* Results: Result<T, DiskError> (src/src/errors.rs).                      *)
(***************************************************************************)
Ok(v) == [st |-> "Ok", val |-> v]
Err(kind, msg) == [st |-> "Err", val |-> <<kind, msg>>]
IsOk(r) == r.st = "Ok"
IsErr(r, kind) == r.st = "Err" /\ r.val[1] = kind
\* a call that does not return: a panic unwinds out of it
Panic(msg) == [st |-> "Panic", val |-> msg]
IsPanic(r) == r.st = "Panic"

MsgMismatch == "Mismatched vector type: expected fp32"
MsgNoIndex == "No supported index loaded."
\* the text of a failure of the storage engine
MsgLengths == "assertion failed: va.len() == vb.len()"
MsgLock == "Failed to acquire lock: poisoned lock"
MsgStorage == "SQLite error"

(***************************************************************************)
(* String helpers used on model signatures.                                *)
(***************************************************************************)
ends_with(s, suffix) ==
    /\ Len(s) >= Len(suffix)
    /\ SubSeq(s, Len(s) - Len(suffix) + 1, Len(s)) = suffix

contains(s, c) == \E i \in 1..Len(s) : s[i] = c

Fp32Suffix == <<"_", "f", "p", "3", "2">>

(***************************************************************************)
(* Vector codec: f32::to_le_bytes / f32::from_le_bytes over 4-byte        *)
(* windows.                                                                *)
(***************************************************************************)
\* Mutant of to_le_bytes: the most significant byte comes first.
to_be_bytes(f) ==
    <<f.s * 128 + f.e \div 2,
      (f.e % 2) * 128 + f.m \div 65536,
      (f.m \div 256) % 256,
      f.m % 256>>

\* bits 0-22 are the fraction, bits 23-30 the exponent, bit 31 the sign;
\* the least significant byte comes first
to_le_bytes(f) ==
    <<f.m % 256,
      (f.m \div 256) % 256,
      (f.e % 2) * 128 + f.m \div 65536,
      f.s * 128 + f.e \div 2>>

from_le_bytes(b) ==
    [s |-> b[4] \div 128,
     e |-> (b[4] % 128) * 2 + b[3] \div 128,
     m |-> (b[3] % 128) * 65536 + b[2] * 256 + b[1]]

RECURSIVE EncodeVector(_)
EncodeVector(v) ==
    IF v = <<>> THEN <<>> ELSE to_le_bytes(Head(v)) \o EncodeVector(Tail(v))

\* chunks_exact(4): the complete 4-byte windows, a shorter remainder dropped
DecodeVector(blob) ==
    [i \in 1..(Len(blob) \div 4) |-> from_le_bytes(SubSeq(blob, 4 * i - 3, 4 * i))]

(***************************************************************************)
(* serde_json: Value::to_string and from_str.  to_string writes the       *)
(* compact text of a value; from_str is its inverse on the texts          *)
(* to_string produces and fails on the other texts of the model.          *)
(***************************************************************************)
JsonToString(j) ==
    CASE j = JsonNull -> "null"
      [] j = JsonEmptyObject -> "{}"
      [] j = JsonA1 -> "{\"a\":1}"

JsonFromStr(s) ==
    CASE s = "null" -> Ok(JsonNull)
      [] s = "{}" -> Ok(JsonEmptyObject)
      [] s = "{\"a\":1}" -> Ok(JsonA1)
      [] OTHER -> Err("Json", "parse error")

MetadataTexts == {JsonToString(j) : j \in JsonValues}

(***************************************************************************)
(* The persistent store: the tables of CREATE_DB_SQL.  chunks and indices *)
(* are sequences in rowid order; index_id is the AUTOINCREMENT key.       *)
(***************************************************************************)
SPEC_VERSION == "1.0"

NoDb == [exists |-> FALSE, manifest |-> {}, chunks |-> <<>>, indices |-> <<>>]

CREATE_DB_SQL ==
    [exists |-> TRUE,
     manifest |-> {<<"spec_version", SPEC_VERSION>>},
     chunks |-> <<>>,
     indices |-> <<>>]

\* Mutant of RemoveFile: the file at the location is left in place.
KeepFile(file) == file

\* std::fs::remove_file(&path) when the path exists
RemoveFile(file) == NoDb

\* Connection::open(&path) and execute_batch(CREATE_DB_SQL) on the file: the
\* tables are created without IF NOT EXISTS
ExecuteBatch(file) ==
    IF file.exists THEN Err("Rusqlite", "table manifest already exists")
    ELSE Ok(CREATE_DB_SQL)

Range(s) == {s[i] : i \in 1..Len(s)}

ChunkIdsOf(db) == {r.chunk_id : r \in Range(db.chunks)}

IndexRecordsOf(db, sig) == {r \in Range(db.indices) : r.model_signature = sig}

\* INSERT INTO chunks: chunk_id is the PRIMARY KEY
InsertChunk(db, chunk_id, content, metadata_str) ==
    IF chunk_id \in ChunkIdsOf(db)
    THEN Err("Rusqlite", "UNIQUE constraint failed")
    ELSE Ok([db EXCEPT !.chunks = Append(@,
                [chunk_id |-> chunk_id, content |-> content,
                 metadata |-> metadata_str])])

\* INSERT INTO indices: (chunk_id, model_signature) is UNIQUE
InsertIndex(db, chunk_id, sig, data) ==
    IF \E r \in IndexRecordsOf(db, sig) : r.chunk_id = chunk_id
    THEN Err("Rusqlite", "UNIQUE constraint failed")
    ELSE Ok([db EXCEPT !.indices = Append(@,
                [index_id |-> Len(db.indices) + 1, chunk_id |-> chunk_id,
                 index_type |-> "vector_embedding", model_signature |-> sig,
                 data |-> data])])

\* the places where the storage engine can fail inside add_chunk's transaction
Faults == {"none", "chunk", "index", "commit"}

\* Mutant of AddChunkTransaction: the inserts run in autocommit mode, so an
\* error after the first insert leaves the Chunk row behind.
AddChunkNoRollback(db, chunk_id, content, metadata_str, sig, data, fault) ==
    LET r1 == IF fault = "chunk" THEN Err("Rusqlite", MsgStorage)
              ELSE InsertChunk(db, chunk_id, content, metadata_str)
    IN  IF ~IsOk(r1) THEN [res |-> r1, db |-> db]
        ELSE LET r2 == IF fault = "index" THEN Err("Rusqlite", MsgStorage)
                       ELSE InsertIndex(r1.val, chunk_id, sig, data)
             IN  IF ~IsOk(r2) THEN [res |-> r2, db |-> r1.val]
                 ELSE IF fault = "commit"
                      THEN [res |-> Err("Rusqlite", MsgStorage), db |-> r2.val]
                      ELSE [res |-> Ok(<<>>), db |-> r2.val]

\* The transaction of add_chunk: the two inserts and the commit.  An error
\* returns early and drops tx, which rolls the transaction back.
AddChunkTransaction(db, chunk_id, content, metadata_str, sig, data, fault) ==
    LET r1 == IF fault = "chunk" THEN Err("Rusqlite", MsgStorage)
              ELSE InsertChunk(db, chunk_id, content, metadata_str)
    IN  IF ~IsOk(r1) THEN [res |-> r1, db |-> db]
        ELSE LET r2 == IF fault = "index" THEN Err("Rusqlite", MsgStorage)
                       ELSE InsertIndex(r1.val, chunk_id, sig, data)
             IN  IF ~IsOk(r2) THEN [res |-> r2, db |-> db]
                 ELSE IF fault = "commit"
                      THEN [res |-> Err("Rusqlite", MsgStorage), db |-> db]
                      ELSE [res |-> Ok(<<>>), db |-> r2.val]

\* Mutant of UpdateMetadataRows: the statement sets the content as well.
UpdateMetadataAndContent(db, chunk_id, metadata_str) ==
    [db EXCEPT !.chunks =
        [i \in 1..Len(@) |->
            IF @[i].chunk_id = chunk_id
            THEN [@[i] EXCEPT !.metadata = metadata_str, !.content = metadata_str]
            ELSE @[i]]]

\* Mutant of UpdateMetadataRows: the WHERE clause is missing.
UpdateEveryRow(db, chunk_id, metadata_str) ==
    [db EXCEPT !.chunks =
        [i \in 1..Len(@) |-> [@[i] EXCEPT !.metadata = metadata_str]]]

\* UPDATE chunks SET metadata = ?1 WHERE chunk_id = ?2
UpdateMetadataRows(db, chunk_id, metadata_str) ==
    [db EXCEPT !.chunks =
        [i \in 1..Len(@) |->
            IF @[i].chunk_id = chunk_id
            THEN [@[i] EXCEPT !.metadata = metadata_str]
            ELSE @[i]]]

RowsAffected(db, chunk_id) ==
    Cardinality({i \in 1..Len(db.chunks) : db.chunks[i].chunk_id = chunk_id})

\* impl TryFrom<&Row> for Chunk
ChunkFromRow(row) ==
    LET parsed == JsonFromStr(row.metadata)
    IN  [chunk_id |-> row.chunk_id,
         content |-> row.content,
         metadata |-> IF IsOk(parsed) THEN parsed.val ELSE JsonEmptyObject]

(***************************************************************************)
(* The ANN graph (hnsw_rs, Hnsw<f32, DistCosine>): the inserted points in *)
(* insertion order, each a vector with the dense id it was inserted       *)
(* under.  A search is the exact nearest-neighbour search, ties in any    *)
(* order.                                                                  *)
(***************************************************************************)
\* the value of an f32 with a zero fraction below the units (an integer)
F32Value(f) ==
    LET mag == IF f.e < 127 THEN 0
               ELSE ((8388608 + f.m) \div 2^(23 - (f.e - 127)))
    IN  IF f.s = 1 THEN 0 - mag ELSE mag

RECURSIVE SumTo(_, _)
SumTo(f, n) == IF n = 0 THEN 0 ELSE f[n] + SumTo(f, n - 1)

RECURSIVE SqrtIter(_, _)
SqrtIter(n, r) ==
    IF r <= n \div r /\ r + 1 > n \div (r + 1) THEN r
    ELSE SqrtIter(n, (r + n \div r) \div 2)

\* the integer square root, by Newton's iteration from a start above it
ISqrt(n) == IF n = 0 THEN 0 ELSE SqrtIter(n, n \div 1000 + 1000)

\* DistCosine::eval in thousandths: 1 - a.b / sqrt(|a|^2 |b|^2), and 0 when
\* either norm is 0
DistCosine(va, vb) ==
    LET n == IF Len(va) < Len(vb) THEN Len(va) ELSE Len(vb)
        ab == SumTo([i \in 1..n |-> F32Value(va[i]) * F32Value(vb[i])], n)
        aa == SumTo([i \in 1..n |-> F32Value(va[i]) * F32Value(va[i])], n)
        bb == SumTo([i \in 1..n |-> F32Value(vb[i]) * F32Value(vb[i])], n)
        d == 1000 - (1000000 * ab) \div ISqrt(aa * bb * 1000000)
    IN  IF aa > 0 /\ bb > 0 THEN (IF d < 0 THEN 0 ELSE d) ELSE 0

NoIndex == [kind |-> "None", points |-> <<>>]

HnswNew == [kind |-> "F32", points |-> <<>>]

\* Mutant of HnswInsert: the new point replaces the points of the graph.
HnswInsertReplace(hnsw, vector, d_id) ==
    [hnsw EXCEPT !.points = <<[v |-> vector, d_id |-> d_id]>>]

\* hnsw.insert((&vector, d_id))
HnswInsert(hnsw, vector, d_id) ==
    [hnsw EXCEPT !.points = Append(@, [v |-> vector, d_id |-> d_id])]

\* the vector has another length than a point of the graph
LengthsDiffer(hnsw, vector) ==
    \E i \in 1..Len(hnsw.points) : Len(hnsw.points[i].v) # Len(vector)

\* hnsw.insert((&vector, d_id)), every outcome: the library is handed the
\* slice unchecked, and against a point of another length its distance
\* either runs over the common prefix or fails its length assertion
HnswInsertOutcomes(hnsw, vector, d_id) ==
    {Ok(HnswInsert(hnsw, vector, d_id))}
    \cup (IF LengthsDiffer(hnsw, vector) THEN {Panic(MsgLengths)} ELSE {})

\* hnsw.search(q, top_k, ef): every answer the graph may give
HnswSearch(hnsw, q, top_k) ==
    LET n == Len(hnsw.points)
        m == IF top_k < n THEN top_k ELSE n
        dist == [i \in 1..n |-> DistCosine(q, hnsw.points[i].v)]
    IN  { [j \in 1..m |-> [d_id |-> hnsw.points[s[j]].d_id, distance |-> dist[s[j]]]] :
            s \in { t \in [1..m -> 1..n] :
                      /\ \A a, b \in 1..m : a < b => t[a] # t[b] /\ dist[t[a]] <= dist[t[b]]
                      /\ \A i \in 1..n :
                            (\A a \in 1..m : t[a] # i) =>
                                \A a \in 1..m : dist[t[a]] <= dist[i] } }

RECURSIVE SortedSeq(_)
SortedSeq(S) ==
    IF S = {} THEN <<>>
    ELSE LET lo == CHOOSE x \in S : \A y \in S : x <= y
         IN  <<lo>> \o SortedSeq(S \ {lo})

(***************************************************************************)
(* Model-signature dispatch.                                               *)
(***************************************************************************)
\* add_chunk's check of an F32 vector against the signature: the vector is
\* refused iff this is FALSE
WriterAcceptsF32(sig) ==
    ~(~ends_with(sig, Fp32Suffix) /\ ~contains(sig, "_"))

\* Mutant of LoaderIsF32: every signature is dispatched to the f32 branch.
LoaderAnyF32(sig) == TRUE

\* load_index_from_db's dispatch to the f32 branch
LoaderIsF32(sig) == ends_with(sig, Fp32Suffix) \/ ~contains(sig, "_")

\* Mutant of SelectIndexRows: the query has no WHERE clause.
SelectAllIndexRows(db, sig) ==
    LET ids == SortedSeq({r.chunk_id : r \in Range(db.indices)})
    IN  [i \in 1..Len(ids) |->
            CHOOSE r \in Range(db.indices) : r.chunk_id = ids[i]]

\* SELECT chunk_id, data FROM indices WHERE model_signature = ?1 ORDER BY chunk_id
SelectIndexRows(db, sig) ==
    LET ids == SortedSeq({r.chunk_id : r \in IndexRecordsOf(db, sig)})
    IN  [i \in 1..Len(ids) |->
            CHOOSE r \in IndexRecordsOf(db, sig) : r.chunk_id = ids[i]]

RECURSIVE InsertAll(_, _, _)
InsertAll(hnsw, data_blobs, i) ==
    IF i > Len(data_blobs) THEN hnsw
    ELSE InsertAll(HnswInsert(hnsw, DecodeVector(data_blobs[i]), i - 1),
                   data_blobs, i + 1)

load_index_from_db(db, sig) ==
    LET rows == SelectIndexRows(db, sig)
        id_map == [i \in 1..Len(rows) |-> rows[i].chunk_id]
        data_blobs == [i \in 1..Len(rows) |-> rows[i].data]
    IN  IF ~db.exists THEN Err("Rusqlite", "no such table: indices")
        ELSE IF id_map = <<>> THEN Ok([index |-> NoIndex, id_map |-> <<>>])
        ELSE IF LoaderIsF32(sig)
             THEN Ok([index |-> InsertAll(HnswNew, data_blobs, 1), id_map |-> id_map])
             ELSE Ok([index |-> NoIndex, id_map |-> id_map])

\* every outcome of load_index_from_db: the insert loop may fail the
\* library's length assertion when the records hold vectors of two lengths
LoadOutcomes(db, sig) ==
    LET loaded == load_index_from_db(db, sig)
    IN  {loaded}
        \cup (IF /\ IsOk(loaded)
                 /\ \E i \in 1..Len(loaded.val.index.points) :
                       LengthsDiffer(loaded.val.index, loaded.val.index.points[i].v)
              THEN {Panic(MsgLengths)} ELSE {})

(***************************************************************************)
(* State.                                                                  *)
(*   disk            the store at the location on disk                     *)
(*   mem             the memory-resident store of an instance made by      *)
(*                   open_in_memory                                        *)
(*   origin          the constructor that made the live instance           *)
(*                   ("none": no instance yet)                             *)
(*   model_signature, index, id_to_chunk_id   the fields of IdentityDisk   *)
(*   poisoned        the two RwLocks of the instance are poisoned: a call  *)
(*                   panicked while it held their write guards             *)
(*   op, ret         the last call on the interface and what it returned   *)
(*                   (for create, with the number of Chunk rows of the     *)
(*                   file it removed)                                      *)
(*   added           history: for each chunk whose rows an add_chunk of    *)
(*                   the live instance committed, the arguments of the     *)
(*                   call, whether it returned Ok, whether                 *)
(*                   update_chunk_metadata was called on the chunk since,  *)
(*                   whether after the commit of the call the store held   *)
(*                   the chunk while the id list and the graph did not,    *)
(*                   and whether during the call the id list held a chunk  *)
(*                   the store had not committed                           *)
(*   locks           the RwLocks of index and of id_to_chunk_id: whether a *)
(*                   write guard is out, and the callers holding a read    *)
(*                   guard                                                 *)
(*   calls           for each concurrent caller, where its call stands and *)
(*                   the locals of the call                                *)
(***************************************************************************)
VARIABLES disk, mem, origin, model_signature, index, id_to_chunk_id, poisoned,
          op, ret, added, locks, calls, twin

\* the callers of the concurrent specification: two readers and a writer
Readers == {"r1", "r2"}
Writer == "w"
Callers == Readers \cup {Writer}

\* RwLock::new: no guard is out
Free == [writer |-> FALSE, readers |-> {}]

\* the number of calls each concurrent caller makes
MaxCalls == 2

\* a caller between two calls, n calls begun so far
Idle == [pc |-> "idle", n |-> 0, vector |-> <<>>, top_k |-> 0, neighbors |-> <<>>,
         chunk_id |-> 0, new_hnsw_id |-> 0]

\* no second instance is kept beside the live one
NoTwin == [turn |-> "none"]

vars == <<disk, mem, origin, model_signature, index, id_to_chunk_id, poisoned,
          op, ret, added, locks, calls, twin>>

Init ==
    /\ disk = NoDb
    /\ mem = NoDb
    /\ origin = "none"
    /\ model_signature = <<>>
    /\ index = NoIndex
    /\ id_to_chunk_id = <<>>
    /\ poisoned = FALSE
    /\ locks = [index |-> Free, id_map |-> Free]
    /\ calls = [t \in Callers |-> Idle]
    /\ twin = NoTwin
    /\ op = [name |-> "none"]
    /\ ret = Ok(<<>>)
    /\ added = <<>>

InMemory == origin = "open_in_memory"

\* Mutant of Conn: the instance reads through a connection to the file.
ConnDisk == disk

\* the store self.conn is connected to
Conn == IF InMemory THEN mem ELSE disk

\* Mutant of WriteConn: the instance keeps the connection to the file.
WriteConnDisk(db) == disk' = db /\ UNCHANGED mem

\* a write through self.conn
WriteConn(db) ==
    IF InMemory THEN mem' = db /\ UNCHANGED disk
    ELSE disk' = db /\ UNCHANGED mem

\* Mutant of Backup: the copy carries the chunks and the index records only.
BackupWithoutManifest(src) == [src EXCEPT !.manifest = {}]

\* Backup::run_to_completion: the whole content of the source store
Backup(src) == src

(***************************************************************************)
(* Constructors.  A constructor that fails leaves the live instance, if   *)
(* any, as it was.  Opening a location that holds no store fails in       *)
(* load_index_from_db.                                                     *)
(***************************************************************************)
create(sig) ==
    LET batch == ExecuteBatch(RemoveFile(disk))
    IN  /\ UNCHANGED <<locks, calls, twin>>
  /\ op' = [name |-> "create", sig |-> sig, removed |-> Len(disk.chunks)]
        /\ IF IsOk(batch)
           THEN LET loaded == load_index_from_db(batch.val, sig)
                IN  /\ disk' = batch.val
                    /\ mem' = NoDb
                    /\ origin' = "create"
                    /\ model_signature' = sig
                    /\ index' = loaded.val.index
                    /\ id_to_chunk_id' = <<>>
                    /\ poisoned' = FALSE
                    /\ ret' = Ok(<<>>)
                    /\ added' = <<>>
           ELSE /\ ret' = batch
                /\ UNCHANGED <<disk, mem, origin, model_signature, index,
                               id_to_chunk_id, poisoned, added>>

open(sig) ==
    \E loaded \in LoadOutcomes(disk, sig) :
        /\ UNCHANGED <<locks, calls, twin>>
        /\ op' = [name |-> "open", sig |-> sig]
        /\ IF IsOk(loaded)
           THEN /\ origin' = "open"
                /\ mem' = NoDb
                /\ model_signature' = sig
                /\ index' = loaded.val.index
                /\ id_to_chunk_id' = loaded.val.id_map
                /\ poisoned' = FALSE
                /\ ret' = Ok(<<>>)
                /\ added' = <<>>
                /\ UNCHANGED disk
           ELSE /\ ret' = loaded
                /\ UNCHANGED <<disk, mem, origin, model_signature, index,
                               id_to_chunk_id, poisoned, added>>

open_in_memory(sig) ==
    LET mem_conn == Backup(disk)
    IN  \E loaded \in LoadOutcomes(mem_conn, sig) :
        /\ UNCHANGED <<locks, calls, twin>>
        /\ op' = [name |-> "open_in_memory", sig |-> sig]
        /\ IF IsOk(loaded)
           THEN /\ origin' = "open_in_memory"
                /\ mem' = mem_conn
                /\ model_signature' = sig
                /\ index' = loaded.val.index
                /\ id_to_chunk_id' = loaded.val.id_map
                /\ poisoned' = FALSE
                /\ ret' = Ok(<<>>)
                /\ added' = <<>>
                /\ UNCHANGED disk
           ELSE /\ ret' = loaded
                /\ UNCHANGED <<disk, mem, origin, model_signature, index,
                               id_to_chunk_id, poisoned, added>>

(***************************************************************************)
(* add_chunk                                                               *)
(***************************************************************************)
\* Uuid::new_v4: an id no store of the model holds
FreshIds == ChunkIds \ (ChunkIdsOf(disk) \cup ChunkIdsOf(mem))

\* the ids the call may draw; which one is drawn matters only when the
\* transaction commits
NewV4(fault) ==
    IF fault = "none" \/ FreshIds = {} THEN FreshIds
    ELSE {CHOOSE chunk_id \in FreshIds : TRUE}

\* Mutant of MetadataStr: the supplied metadata is dropped.
MetadataStrDefault(metadata) == "{}"

MetadataStr(metadata) ==
    IF metadata = NoneJson THEN "{}" ELSE JsonToString(metadata)

\* every chunk of the id list has a Chunk row and an IndexRecord of sig in db
IdListCommitted(db, sig, id_map) ==
    \A i \in 1..Len(id_map) :
        /\ id_map[i] \in ChunkIdsOf(db)
        /\ \E r \in IndexRecordsOf(db, sig) : r.chunk_id = id_map[i]

\* Mutant of AddChunkSteps: the graph and the id list are updated first and
\* the transaction is committed after.
AddChunkStepsIndexFirst(before, committed, idx, inserted, id_map, chunk_id) ==
    << [conn |-> before, index |-> inserted, id_map |-> id_map],
       [conn |-> before, index |-> inserted, id_map |-> Append(id_map, chunk_id)],
       [conn |-> committed, index |-> inserted, id_map |-> Append(id_map, chunk_id)] >>

\* Mutant of AddChunkSteps: the commit and the in-memory step are one step
\* (a single lock spans both).
AddChunkStepsAtOnce(before, committed, idx, inserted, id_map, chunk_id) ==
    << [conn |-> committed, index |-> inserted, id_map |-> Append(id_map, chunk_id)] >>

\* the store, the graph and the id list after each of the three statements of
\* a successful add_chunk that change them: tx.commit(), hnsw.insert(..) and
\* id_map.push(..), in the order the code runs them
AddChunkSteps(before, committed, idx, inserted, id_map, chunk_id) ==
    << [conn |-> committed, index |-> idx, id_map |-> id_map],
       [conn |-> committed, index |-> inserted, id_map |-> id_map],
       [conn |-> committed, index |-> inserted, id_map |-> Append(id_map, chunk_id)] >>

\* at one of the steps the id list held a chunk the store had not committed
RanAhead(steps, sig) ==
    \E i \in 1..Len(steps) : ~IdListCommitted(steps[i].conn, sig, steps[i].id_map)

\* what a reader sees in step st: get_chunks returns the row of chunk_id,
\* while the id list does not hold chunk_id and the graph has no entry
\* beyond the id list
InWindow(st, chunk_id) ==
    /\ chunk_id \in {ChunkFromRow(row).chunk_id : row \in Range(st.conn.chunks)}
    /\ chunk_id \notin Range(st.id_map)
    /\ \A p \in Range(st.index.points) : p.d_id < Len(st.id_map)

\* Mutant of AddToIndex: a disabled index is replaced by a new graph on the
\* first insert.
AddToIndexLazily(committed, chunk_id, vector_for_hnsw) ==
    /\ index' = HnswInsert(IF index.kind = "F32" THEN index ELSE HnswNew,
                           vector_for_hnsw, Len(id_to_chunk_id))
    /\ id_to_chunk_id' = Append(id_to_chunk_id, chunk_id)
    /\ ret' = Ok(chunk_id)
    /\ UNCHANGED poisoned

\* the in-memory step of add_chunk, after the commit
AddToIndex(committed, chunk_id, vector_for_hnsw) ==
    LET new_hnsw_id == Len(id_to_chunk_id)
    IN  IF poisoned
        THEN /\ ret' = Err("RwLockRead", MsgLock)
             /\ UNCHANGED <<index, id_to_chunk_id, poisoned>>
        ELSE IF index.kind = "F32"
        THEN \E inserted \in HnswInsertOutcomes(index, vector_for_hnsw, new_hnsw_id) :
                IF IsOk(inserted)
                THEN LET steps == AddChunkSteps(Conn, committed, index, inserted.val,
                                                id_to_chunk_id, chunk_id)
                     IN  /\ index' = steps[Len(steps)].index
                         /\ id_to_chunk_id' = steps[Len(steps)].id_map
                     /\ ret' = Ok(chunk_id)
                     /\ UNCHANGED poisoned
                ELSE /\ ret' = inserted
                     /\ poisoned' = TRUE
                     /\ UNCHANGED <<index, id_to_chunk_id>>
        ELSE /\ ret' = Err("InvalidData", MsgNoIndex)
             /\ UNCHANGED <<index, id_to_chunk_id, poisoned>>

\* f with x mapped to v
Record(f, x, v) ==
    [y \in DOMAIN f \cup {x} |-> IF y = x THEN v ELSE f[y]]

add_chunk(content, embedding, metadata, fault) ==
    /\ origin # "none"
    /\ UNCHANGED <<locks, calls, twin>>
    /\ op' = [name |-> "add_chunk", content |-> content, embedding |-> embedding,
              metadata |-> metadata]
    /\ UNCHANGED <<origin, model_signature>>
    /\ IF ~WriterAcceptsF32(model_signature)
       THEN /\ ret' = Err("InvalidData", MsgMismatch)
            /\ UNCHANGED <<disk, mem, index, id_to_chunk_id, poisoned, added>>
       ELSE \E chunk_id \in NewV4(fault) :
              LET tx == AddChunkTransaction(Conn, chunk_id, content,
                            MetadataStr(metadata), model_signature,
                            EncodeVector(embedding), fault)
              IN  IF ~IsOk(tx.res)
                  THEN /\ ret' = tx.res
                       /\ WriteConn(tx.db)
                       /\ UNCHANGED <<index, id_to_chunk_id, poisoned, added>>
                  ELSE /\ WriteConn(tx.db)
                       /\ AddToIndex(tx.db, chunk_id, embedding)
                       /\ added' = Record(added, chunk_id,
                                       [content |-> content, embedding |-> embedding,
                                        metadata |-> metadata, ok |-> IsOk(ret'),
                                        touched |-> FALSE,
                                        window |->
                                            IF IsOk(ret')
                                            THEN InWindow(
                                                   AddChunkSteps(Conn, tx.db, index, index',
                                                       id_to_chunk_id, chunk_id)[1],
                                                   chunk_id)
                                            ELSE InWindow(
                                                   [conn |-> tx.db, index |-> index',
                                                    id_map |-> id_to_chunk_id'],
                                                   chunk_id),
                                        ahead |-> /\ IsOk(ret')
                                                  /\ RanAhead(
                                                        AddChunkSteps(Conn, tx.db, index,
                                                            index', id_to_chunk_id, chunk_id),
                                                        model_signature)])

(***************************************************************************)
(* get_chunks, search, update_chunk_metadata and the two small queries.   *)
(***************************************************************************)
get_chunks ==
    /\ origin # "none"
    /\ UNCHANGED <<locks, calls, twin>>
    /\ op' = [name |-> "get_chunks"]
    /\ ret' = Ok([i \in 1..Len(Conn.chunks) |-> ChunkFromRow(Conn.chunks[i])])
    /\ UNCHANGED <<disk, mem, origin, model_signature, index, id_to_chunk_id,
                   poisoned, added>>

\* Mutant of QueryChunk: the statement has no WHERE clause, and query_row
\* takes the first row.
QueryFirstChunk(db, chunk_id) ==
    IF db.chunks # <<>> THEN Ok(ChunkFromRow(db.chunks[1]))
    ELSE Err("Rusqlite", "QueryReturnedNoRows")

\* Mutant of QueryChunk: a chunk the instance added is answered from a copy
\* kept at add_chunk.
QueryCachedChunk(db, chunk_id) ==
    IF chunk_id \in DOMAIN added
    THEN Ok([chunk_id |-> chunk_id, content |-> added[chunk_id].content,
             metadata |-> IF added[chunk_id].metadata = NoneJson
                          THEN JsonEmptyObject ELSE added[chunk_id].metadata])
    ELSE IF \E r \in Range(db.chunks) : r.chunk_id = chunk_id
    THEN Ok(ChunkFromRow(CHOOSE r \in Range(db.chunks) : r.chunk_id = chunk_id))
    ELSE Err("Rusqlite", "QueryReturnedNoRows")

\* SELECT ... FROM chunks WHERE chunk_id = ?1, query_row
QueryChunk(db, chunk_id) ==
    IF \E r \in Range(db.chunks) : r.chunk_id = chunk_id
    THEN Ok(ChunkFromRow(CHOOSE r \in Range(db.chunks) : r.chunk_id = chunk_id))
    ELSE Err("Rusqlite", "QueryReturnedNoRows")

\* the loop of search over the neighbors: the first failure ends the call
RECURSIVE CollectResults(_, _, _, _)
CollectResults(db, id_map, neighbors, results) ==
    IF neighbors = <<>> THEN Ok(results)
    ELSE LET neighbor == Head(neighbors)
         IN  IF neighbor.d_id >= Len(id_map)
             THEN Panic("index out of bounds")
             ELSE LET chunk == QueryChunk(db, id_map[neighbor.d_id + 1])
                  IN  IF ~IsOk(chunk) THEN chunk
                      ELSE CollectResults(db, id_map, Tail(neighbors),
                               Append(results,
                                   [chunk |-> chunk.val,
                                    distance |-> neighbor.distance]))

\* every value search(query_vector, top_k) may return in the current state
SearchOutcomes(db, idx, id_map, query_vector, top_k) ==
    IF idx.kind = "None" THEN {Ok(<<>>)}
    ELSE {CollectResults(db, id_map, neighbors, <<>>) :
             neighbors \in HnswSearch(idx, query_vector, top_k)}
         \cup (IF LengthsDiffer(idx, query_vector) THEN {Panic(MsgLengths)} ELSE {})

\* every value search(query_vector, top_k) may return on the live instance:
\* index.read() fails on a poisoned lock
SearchReturns(query_vector, top_k) ==
    IF poisoned THEN {Err("RwLockRead", MsgLock)}
    ELSE SearchOutcomes(Conn, index, id_to_chunk_id, query_vector, top_k)

search(query_vector, top_k) ==
    /\ origin # "none"
    /\ UNCHANGED <<locks, calls, twin>>
    /\ op' = [name |-> "search", query_vector |-> query_vector, top_k |-> top_k]
    /\ ret' \in SearchReturns(query_vector, top_k)
    /\ UNCHANGED <<disk, mem, origin, model_signature, index, id_to_chunk_id,
                   poisoned, added>>

update_chunk_metadata(chunk_id, new_metadata) ==
    LET metadata_str == JsonToString(new_metadata)
        rows_affected == RowsAffected(Conn, chunk_id)
    IN  /\ origin # "none"
        /\ UNCHANGED <<locks, calls, twin>>
        /\ op' = [name |-> "update_chunk_metadata", chunk_id |-> chunk_id,
                  new_metadata |-> new_metadata]
        /\ WriteConn(UpdateMetadataRows(Conn, chunk_id, metadata_str))
        /\ ret' = IF rows_affected = 0 THEN Err("NotFound", chunk_id) ELSE Ok(<<>>)
        /\ added' = IF chunk_id \in DOMAIN added
                     THEN [added EXCEPT ![chunk_id].touched = TRUE]
                     ELSE added
        /\ UNCHANGED <<origin, model_signature, index, id_to_chunk_id, poisoned>>

get_spec_version ==
    /\ origin # "none"
    /\ UNCHANGED <<locks, calls, twin>>
    /\ op' = [name |-> "get_spec_version"]
    /\ ret' = IF \E e \in Conn.manifest : e[1] = "spec_version"
              THEN Ok((CHOOSE e \in Conn.manifest : e[1] = "spec_version")[2])
              ELSE Err("Rusqlite", "QueryReturnedNoRows")
    /\ UNCHANGED <<disk, mem, origin, model_signature, index, id_to_chunk_id,
                   poisoned, added>>

get_index_type_description ==
    /\ origin # "none"
    /\ UNCHANGED <<locks, calls, twin>>
    /\ op' = [name |-> "get_index_type_description"]
    /\ ret' = IF poisoned THEN Err("RwLockRead", MsgLock)
              ELSE Ok(IF index.kind = "F32" THEN "F32 (Cosine Distance)"
                      ELSE "None (No index loaded or supported for current model signature)")
    /\ UNCHANGED <<disk, mem, origin, model_signature, index, id_to_chunk_id,
                   poisoned, added>>

Next ==
    \/ \E sig \in Signatures : create(sig)
    \/ \E sig \in Signatures : open(sig)
    \/ \E sig \in Signatures : open_in_memory(sig)
    \/ \E a \in AddInputs, fault \in Faults : add_chunk(a[1], a[2], a[3], fault)
    \/ get_chunks
    \/ \E query_vector \in Vectors, top_k \in TopKs : search(query_vector, top_k)
    \/ \E chunk_id \in ChunkIds, new_metadata \in UpdateJson :
          update_chunk_metadata(chunk_id, new_metadata)
    \/ get_spec_version
    \/ get_index_type_description

Spec == Init /\ [][Next]_vars

\* the interface called also with vectors of another length
NextLen ==
    \/ Next
    \/ \E fault \in Faults : add_chunk(AddShort[1], AddShort[2], AddShort[3], fault)
    \/ \E top_k \in TopKs : search(VecShort, top_k)

SpecLen == Init /\ [][NextLen]_vars

(***************************************************************************)
(* The lock protocol of search and of add_chunk, for callers that run     *)
(* their calls on one instance at the same time: each statement that       *)
(* takes a lock, reads or writes the graph or the id list, or drops the   *)
(* guards is one step.                                                     *)
(***************************************************************************)
\* Mutant of CanRead: a read guard is handed out while a write guard is out.
CanReadAlways(l) == TRUE

\* RwLock::read returns once no write guard is out
CanRead(l) == ~l.writer

\* RwLock::write returns once no guard is out
CanWrite(l) == ~l.writer /\ l.readers = {}

\* an instance opened on a store that holds one chunk of the signature
InitLocks ==
    LET tx == AddChunkTransaction(CREATE_DB_SQL, 1, "x", "{}", SigDemo,
                                  EncodeVector(VecE2), "none")
        loaded == load_index_from_db(tx.db, SigDemo)
    IN  /\ disk = tx.db
        /\ mem = NoDb
        /\ origin = "open"
        /\ model_signature = SigDemo
        /\ index = loaded.val.index
        /\ id_to_chunk_id = loaded.val.id_map
        /\ poisoned = FALSE
        /\ locks = [index |-> Free, id_map |-> Free]
        /\ calls = [t \in Callers |-> Idle]
        /\ twin = NoTwin
        /\ op = [name |-> "open", sig |-> SigDemo]
        /\ ret = Ok(<<>>)
        /\ added = <<>>

\* search: let index = self.index.read()?
SearchReadIndex(t, query_vector, top_k) ==
    /\ calls[t].pc = "idle"
    /\ calls[t].n < MaxCalls
    /\ CanRead(locks.index)
    /\ locks' = [locks EXCEPT !.index.readers = @ \cup {t}]
    /\ calls' = [calls EXCEPT ![t] = [Idle EXCEPT !.pc = "index_read",
                                                  !.n = calls[t].n + 1,
                                                  !.vector = query_vector,
                                                  !.top_k = top_k]]
    /\ UNCHANGED twin
    /\ UNCHANGED <<disk, mem, origin, model_signature, index, id_to_chunk_id,
                   poisoned, op, ret, added>>

\* search: hnsw.search(q, top_k, 100)
SearchGraph(t) ==
    /\ calls[t].pc = "index_read"
    /\ \E neighbors \in HnswSearch(index, calls[t].vector, calls[t].top_k) :
          calls' = [calls EXCEPT ![t].pc = "searched", ![t].neighbors = neighbors]
    /\ UNCHANGED twin
    /\ UNCHANGED <<disk, mem, origin, model_signature, index, id_to_chunk_id,
                   poisoned, op, ret, added, locks>>

\* search: let id_map = self.id_to_chunk_id.read()?
SearchReadIdMap(t) ==
    /\ calls[t].pc = "searched"
    /\ CanRead(locks.id_map)
    /\ locks' = [locks EXCEPT !.id_map.readers = @ \cup {t}]
    /\ calls' = [calls EXCEPT ![t].pc = "id_map_read"]
    /\ UNCHANGED twin
    /\ UNCHANGED <<disk, mem, origin, model_signature, index, id_to_chunk_id,
                   poisoned, op, ret, added>>

\* search: the loop over the neighbors and the return, which drops both guards
SearchCollect(t) ==
    /\ calls[t].pc = "id_map_read"
    /\ op' = [name |-> "search", query_vector |-> calls[t].vector,
              top_k |-> calls[t].top_k]
    /\ ret' = CollectResults(Conn, id_to_chunk_id, calls[t].neighbors, <<>>)
    /\ locks' = [locks EXCEPT !.index.readers = @ \ {t}, !.id_map.readers = @ \ {t}]
    /\ calls' = [calls EXCEPT ![t] = [Idle EXCEPT !.n = calls[t].n]]
    /\ UNCHANGED twin
    /\ UNCHANGED <<disk, mem, origin, model_signature, index, id_to_chunk_id,
                   poisoned, added>>

\* add_chunk up to tx.commit()
AddCommit(content, embedding, metadata) ==
    /\ calls[Writer].pc = "idle"
    /\ calls[Writer].n < MaxCalls
    /\ \E chunk_id \in NewV4("none") :
          LET tx == AddChunkTransaction(Conn, chunk_id, content, MetadataStr(metadata),
                                        model_signature, EncodeVector(embedding), "none")
          IN  /\ WriteConn(tx.db)
              /\ calls' = [calls EXCEPT ![Writer] =
                              [Idle EXCEPT !.pc = "committed",
                                           !.n = calls[Writer].n + 1,
                                           !.vector = embedding,
                                           !.chunk_id = chunk_id]]
    /\ UNCHANGED twin
    /\ UNCHANGED <<origin, model_signature, index, id_to_chunk_id, poisoned,
                   op, ret, added, locks>>

\* add_chunk: let mut id_map = self.id_to_chunk_id.write()?; let new_hnsw_id = id_map.len()
AddWriteIdMap ==
    /\ calls[Writer].pc = "committed"
    /\ CanWrite(locks.id_map)
    /\ locks' = [locks EXCEPT !.id_map.writer = TRUE]
    /\ calls' = [calls EXCEPT ![Writer].pc = "id_map_write",
                              ![Writer].new_hnsw_id = Len(id_to_chunk_id)]
    /\ UNCHANGED twin
    /\ UNCHANGED <<disk, mem, origin, model_signature, index, id_to_chunk_id,
                   poisoned, op, ret, added>>

\* add_chunk: let mut index = self.index.write()?
AddWriteIndex ==
    /\ calls[Writer].pc = "id_map_write"
    /\ CanWrite(locks.index)
    /\ locks' = [locks EXCEPT !.index.writer = TRUE]
    /\ calls' = [calls EXCEPT ![Writer].pc = "index_write"]
    /\ UNCHANGED twin
    /\ UNCHANGED <<disk, mem, origin, model_signature, index, id_to_chunk_id,
                   poisoned, op, ret, added>>

\* add_chunk: hnsw.insert((&vector_for_hnsw, new_hnsw_id))
AddInsert ==
    /\ calls[Writer].pc = "index_write"
    /\ index.kind = "F32"
    /\ index' = HnswInsert(index, calls[Writer].vector, calls[Writer].new_hnsw_id)
    /\ calls' = [calls EXCEPT ![Writer].pc = "inserted"]
    /\ UNCHANGED twin
    /\ UNCHANGED <<disk, mem, origin, model_signature, id_to_chunk_id, poisoned,
                   op, ret, added, locks>>

\* add_chunk: id_map.push(chunk_id.clone())
AddPush ==
    /\ calls[Writer].pc = "inserted"
    /\ id_to_chunk_id' = Append(id_to_chunk_id, calls[Writer].chunk_id)
    /\ calls' = [calls EXCEPT ![Writer].pc = "pushed"]
    /\ UNCHANGED twin
    /\ UNCHANGED <<disk, mem, origin, model_signature, index, poisoned,
                   op, ret, added, locks>>

\* add_chunk: the end of the block drops both guards; the call returns
\* Ok(chunk_id), the chunk_id the writer's record keeps (op and ret are those
\* of the searches)
AddReturn ==
    /\ calls[Writer].pc = "pushed"
    /\ locks' = [locks EXCEPT !.index.writer = FALSE, !.id_map.writer = FALSE]
    /\ calls' = [calls EXCEPT ![Writer] = [Idle EXCEPT !.n = calls[Writer].n,
                                                      !.chunk_id = calls[Writer].chunk_id]]
    /\ UNCHANGED twin
    /\ UNCHANGED <<disk, mem, origin, model_signature, index, id_to_chunk_id,
                   poisoned, op, ret, added>>

\* the steps of a call of caller t after its first
SearchSteps(t) == SearchGraph(t) \/ SearchReadIdMap(t) \/ SearchCollect(t)
AddSteps == AddWriteIdMap \/ AddWriteIndex \/ AddInsert \/ AddPush \/ AddReturn

NextLocks ==
    \/ \E t \in Readers : SearchReadIndex(t, VecE1, MaxChunks)
    \/ \E t \in Readers : SearchGraph(t)
    \/ \E t \in Readers : SearchReadIdMap(t)
    \/ \E t \in Readers : SearchCollect(t)
    \/ \E a \in AddInputs : AddCommit(a[1], a[2], a[3])
    \/ AddWriteIdMap
    \/ AddWriteIndex
    \/ AddInsert
    \/ AddPush
    \/ AddReturn

\* every caller is scheduled: a step of a call that can be taken is taken
SpecLocks ==
    /\ InitLocks
    /\ [][NextLocks]_vars
    /\ \A t \in Readers : WF_calls(SearchSteps(t))
    /\ WF_calls(AddSteps)

(***************************************************************************)
(* The vector codec on its own: a vector is encoded as add_chunk encodes   *)
(* it and the blob is decoded as load_index_from_db decodes it.            *)
(***************************************************************************)
\* the longest vector of the codec specification
MaxLen == 2

\* f32 values of every kind: zeros, subnormals, normals, infinities and NaNs
\* of both signs, with fractions that fill one, two and three bytes
CodecFloats ==
    [s : {0, 1}, e : {0, 127, 255}, m : {0, 1, 65793, 8388607}]

CodecVectors == UNION {[1..n -> CodecFloats] : n \in 0..MaxLen}

InitCodec ==
    /\ disk = NoDb
    /\ mem = NoDb
    /\ origin = "none"
    /\ model_signature = <<>>
    /\ index = NoIndex
    /\ id_to_chunk_id = <<>>
    /\ poisoned = FALSE
    /\ locks = [index |-> Free, id_map |-> Free]
    /\ calls = [t \in Callers |-> Idle]
    /\ twin = NoTwin
    /\ \E v \in CodecVectors : op = [name |-> "vector", v |-> v]
    /\ ret = Ok(<<>>)
    /\ added = <<>>

\* embedding_bytes = v.iter().flat_map(|f| f.to_le_bytes()).collect()
Encode ==
    /\ op.name = "vector"
    /\ op' = [op EXCEPT !.name = "encoded"]
    /\ ret' = Ok(EncodeVector(op.v))
    /\ UNCHANGED twin
    /\ UNCHANGED <<disk, mem, origin, model_signature, index, id_to_chunk_id,
                   poisoned, added, locks, calls>>

\* blob.chunks_exact(4).map(|b| f32::from_le_bytes(..)).collect()
Decode ==
    /\ op.name = "encoded"
    /\ op' = [op EXCEPT !.name = "decoded"]
    /\ ret' = Ok(DecodeVector(ret.val))
    /\ UNCHANGED twin
    /\ UNCHANGED <<disk, mem, origin, model_signature, index, id_to_chunk_id,
                   poisoned, added, locks, calls>>

NextCodec == Encode \/ Decode

SpecCodec == InitCodec /\ [][NextCodec]_vars

(***************************************************************************)
(* Two instances made from one persisted store, one by open and one by    *)
(* open_in_memory, each in a world of its own and given the same calls:   *)
(* the first instance takes a call, then the second takes the same call.  *)
(* twin keeps the world that is not taking a call, the store both         *)
(* instances are made from, and whose turn it is.                          *)
(***************************************************************************)
\* the stores a path may hold: nothing, a created store, and a store with
\* one chunk added under a signature add_chunk accepts
PersistedStores ==
    {NoDb, CREATE_DB_SQL}
    \cup {AddChunkTransaction(CREATE_DB_SQL, 1, "x", "{}", sig,
                              EncodeVector(VecE2), "none").db :
             sig \in {SigDemo, SigInt8}}

\* the location on disk, the instance and its last call and result
World ==
    [disk |-> disk, mem |-> mem, origin |-> origin,
     model_signature |-> model_signature, index |-> index,
     id_to_chunk_id |-> id_to_chunk_id, poisoned |-> poisoned,
     op |-> op, ret |-> ret, added |-> added]

WorldNext ==
    [disk |-> disk', mem |-> mem', origin |-> origin',
     model_signature |-> model_signature', index |-> index',
     id_to_chunk_id |-> id_to_chunk_id', poisoned |-> poisoned',
     op |-> op', ret |-> ret', added |-> added']

\* a world in which no instance is made yet
NoInstance(store) ==
    [disk |-> store, mem |-> NoDb, origin |-> "none", model_signature |-> <<>>,
     index |-> NoIndex, id_to_chunk_id |-> <<>>, poisoned |-> FALSE,
     op |-> [name |-> "none"], ret |-> Ok(<<>>), added |-> <<>>]

\* the instance of the world has not taken the call of this round
Ready == [name |-> "ready"]

InitPair ==
    \E store \in PersistedStores :
        /\ disk = store
        /\ mem = NoDb
        /\ origin = "none"
        /\ model_signature = <<>>
        /\ index = NoIndex
        /\ id_to_chunk_id = <<>>
        /\ poisoned = FALSE
        /\ locks = [index |-> Free, id_map |-> Free]
        /\ calls = [t \in Callers |-> Idle]
        /\ op = Ready
        /\ ret = Ok(<<>>)
        /\ added = <<>>
        /\ twin = [turn |-> "first", store |-> store, world |-> NoInstance(store)]

\* the world w goes on, the present one is kept in twin
Resume(w, turn) ==
    /\ twin' = [twin EXCEPT !.turn = turn, !.world = World]
    /\ disk' = w.disk
    /\ mem' = w.mem
    /\ origin' = w.origin
    /\ model_signature' = w.model_signature
    /\ index' = w.index
    /\ id_to_chunk_id' = w.id_to_chunk_id
    /\ poisoned' = w.poisoned
    /\ op' = Ready
    /\ ret' = w.ret
    /\ added' = w.added
    /\ UNCHANGED <<locks, calls>>

\* the store self.conn of the instance of world w is connected to
ConnOf(w) == IF w.origin = "open_in_memory" THEN w.mem ELSE w.disk

\* two results of one call are the same
SameRet(r1, r2) == r1.st = r2.st /\ r1.val = r2.val

\* the instances of two worlds are in the same state: both constructors
\* failed, or one is made by open and the other by open_in_memory and they
\* have the same signature, index, id list and lock state and connections to
\* stores of the same content
Related(w, v) ==
    /\ \/ w.origin = "none" /\ v.origin = "none"
       \/ {w.origin, v.origin} = {"open", "open_in_memory"}
    /\ w.model_signature = v.model_signature
    /\ w.index = v.index
    /\ w.id_to_chunk_id = v.id_to_chunk_id
    /\ w.poisoned = v.poisoned
    /\ ConnOf(w) = ConnOf(v)

\* the first instance is made by either constructor and then takes any call
FirstCall ==
    /\ twin.turn = "first"
    /\ op = Ready
    /\ IF origin = "none"
       THEN \E sig \in Signatures : open(sig) \/ open_in_memory(sig)
       ELSE \/ \E a \in AddInputs, fault \in Faults :
                  add_chunk(a[1], a[2], a[3], fault)
            \/ get_chunks
            \/ \E query_vector \in Vectors, top_k \in TopKs :
                  search(query_vector, top_k)
            \/ \E chunk_id \in ChunkIds, new_metadata \in UpdateJson :
                  update_chunk_metadata(chunk_id, new_metadata)
            \/ get_spec_version
            \/ get_index_type_description

HandOver ==
    /\ twin.turn = "first"
    /\ op # Ready
    /\ Resume(twin.world, "second")

\* the call the first instance took, on the second instance: the other
\* constructor with the same signature, or the same method with the same
\* arguments
SameCall(call) ==
    \/ call.name = "open" /\ open_in_memory(call.sig)
    \/ call.name = "open_in_memory" /\ open(call.sig)
    \/ /\ call.name = "add_chunk"
       /\ \E fault \in Faults :
             add_chunk(call.content, call.embedding, call.metadata, fault)
    \/ call.name = "get_chunks" /\ get_chunks
    \/ call.name = "search" /\ search(call.query_vector, call.top_k)
    \/ /\ call.name = "update_chunk_metadata"
       /\ update_chunk_metadata(call.chunk_id, call.new_metadata)
    \/ call.name = "get_spec_version" /\ get_spec_version
    \/ call.name = "get_index_type_description" /\ get_index_type_description

\* the second instance takes the call with the result and the state the
\* first instance got from it
SecondCall ==
    /\ twin.turn = "second"
    /\ op = Ready
    /\ ret' = twin.world.ret
    /\ SameCall(twin.world.op)
    /\ Related(WorldNext, twin.world)

HandBack ==
    /\ twin.turn = "second"
    /\ op # Ready
    /\ Resume(twin.world, "first")

NextPair ==
    \/ FirstCall
    \/ HandOver
    \/ SecondCall
    \/ HandBack

SpecPair == InitPair /\ [][NextPair]_vars

(***************************************************************************)
(* One instance through its life after construction: opened with a        *)
(* populated index, it takes add_chunk, update_chunk_metadata and search  *)
(* in any order.                                                           *)
(***************************************************************************)
\* an instance opened under any signature on a store that exists
InitQuery ==
    \E store \in PersistedStores \ {NoDb}, sig \in Signatures :
        LET loaded == load_index_from_db(store, sig)
        IN  /\ IsOk(loaded)
            /\ disk = store
            /\ mem = NoDb
            /\ origin = "open"
            /\ model_signature = sig
            /\ index = loaded.val.index
            /\ id_to_chunk_id = loaded.val.id_map
            /\ poisoned = FALSE
            /\ locks = [index |-> Free, id_map |-> Free]
            /\ calls = [t \in Callers |-> Idle]
            /\ twin = NoTwin
            /\ op = [name |-> "open", sig |-> sig]
            /\ ret = Ok(<<>>)
            /\ added = <<>>

NextQuery ==
    \/ \E a \in AddInputs, fault \in Faults : add_chunk(a[1], a[2], a[3], fault)
    \/ \E query_vector \in Vectors, top_k \in TopKs : search(query_vector, top_k)
    \/ \E chunk_id \in ChunkIds, new_metadata \in UpdateJson :
          update_chunk_metadata(chunk_id, new_metadata)

SpecQuery == InitQuery /\ [][NextQuery]_vars

(***************************************************************************)
(* Properties.                                                             *)
(***************************************************************************)
Constructors == {"create", "open", "open_in_memory"}

Live == origin # "none"

\* the chunk ids of a search outcome, in the order returned
ResultIds(out) ==
    IF IsOk(out) THEN [i \in 1..Len(out.val) |-> out.val[i].chunk.chunk_id]
    ELSE out

\* C1: on a disk returned by create("demo-4_fp32"), after
\* add_chunk("hello world", [1,0,0,0], {"a":1}) the call search([1,0,0,0], 1)
\* returns exactly one result: that chunk, at distance 0.
C1_EndToEndScenario ==
    ( /\ origin = "create"
      /\ model_signature = SigDemo
      /\ DOMAIN added # {}
      /\ \A id \in DOMAIN added :
            /\ added[id].content = "hello world"
            /\ added[id].embedding = VecE1
            /\ added[id].metadata = JsonA1
            /\ ~added[id].touched
      /\ Cardinality(DOMAIN added) = 1
      /\ op = [name |-> "search", query_vector |-> VecE1, top_k |-> 1] )
    => \E id \in DOMAIN added :
          ret = Ok(<<[chunk |-> [chunk_id |-> id, content |-> "hello world",
                                 metadata |-> JsonA1],
                      distance |-> 0]>>)

\* C2: on an instance that holds no IndexRecord of its fp32 signature (after
\* create, or after open on a store without such records), the first
\* add_chunk that the storage engine does not fail returns Ok(chunk_id),
\* inserts the vector at dense id 0 and makes the id list [chunk_id].
C2_FreshIndexUsable ==
    [][ ( /\ Live
          /\ op'.name = "add_chunk"
          /\ ends_with(model_signature, Fp32Suffix)
          /\ IndexRecordsOf(Conn, model_signature) = {}
          /\ id_to_chunk_id = <<>>
          /\ ~IsErr(ret', "Rusqlite") )
        => /\ IsOk(ret')
           /\ id_to_chunk_id' = <<ret'.val>>
           /\ index' = [kind |-> "F32",
                        points |-> <<[v |-> op'.embedding, d_id |-> 0]>>] ]_vars

\* C3: the id list is as long as the number of IndexRecords of the bound
\* signature in the instance's store (stated for the signatures tagged
\* _fp32, whose encoding is supported).
C3_IdListCountsRecords ==
    (Live /\ ends_with(model_signature, Fp32Suffix)) =>
        Len(id_to_chunk_id) = Cardinality(IndexRecordsOf(Conn, model_signature))

\* C4: the id list is as long as the graph has entries, and the graph entry
\* with dense id i is the vector of the IndexRecord of the chunk at position
\* i of the id list, also under an unrecognized encoding.
C4_IdListMatchesGraph ==
    Live =>
        /\ Len(id_to_chunk_id) = Len(index.points)
        /\ \A i \in 1..Len(id_to_chunk_id) :
              \E p \in Range(index.points) :
                 /\ p.d_id = i - 1
                 /\ \E r \in IndexRecordsOf(Conn, model_signature) :
                       /\ r.chunk_id = id_to_chunk_id[i]
                       /\ DecodeVector(r.data) = p.v

\* every Chunk row has exactly one IndexRecord, and every IndexRecord a Chunk
StoreConsistent(db) ==
    /\ \A c \in Range(db.chunks) :
          Cardinality({i \in 1..Len(db.indices) :
                          db.indices[i].chunk_id = c.chunk_id}) = 1
    /\ \A r \in Range(db.indices) : r.chunk_id \in ChunkIdsOf(db)
    /\ \A i, j \in 1..Len(db.chunks) :
          db.chunks[i].chunk_id = db.chunks[j].chunk_id => i = j

\* C5: add_chunk writes a Chunk row and an IndexRecord of the bound signature
\* for it, or nothing: every store pairs each Chunk row with exactly one
\* IndexRecord, a call that commits appends exactly the two rows, and a call
\* whose insert or commit fails leaves the store as it was.
C5_AddChunkAllOrNothing ==
    [][ /\ StoreConsistent(disk') /\ StoreConsistent(mem')
        /\ (Live /\ op'.name = "add_chunk") =>
              \/ /\ Conn' = Conn
                 /\ ~IsOk(ret')
              \/ /\ ~IsErr(ret', "Rusqlite")
                 /\ Len(Conn'.chunks) = Len(Conn.chunks) + 1
                 /\ Len(Conn'.indices) = Len(Conn.indices) + 1
                 /\ SubSeq(Conn'.chunks, 1, Len(Conn.chunks)) = Conn.chunks
                 /\ SubSeq(Conn'.indices, 1, Len(Conn.indices)) = Conn.indices
                 /\ LET c == Conn'.chunks[Len(Conn'.chunks)]
                        r == Conn'.indices[Len(Conn'.indices)]
                    IN  /\ c.chunk_id \notin ChunkIdsOf(Conn)
                        /\ r.chunk_id = c.chunk_id
                        /\ r.model_signature = model_signature ]_vars

C5_Witness ==
    /\ op.name = "add_chunk"
    /\ IsErr(ret, "Rusqlite")
    /\ Len(Conn.chunks) >= 1

\* the metadata value a reader expects for an Option<Json> given to add_chunk
Supplied(metadata) ==
    IF metadata = NoneJson THEN JsonEmptyObject ELSE metadata

\* C6: after an add_chunk that returned Ok(id), a get_chunks on the instance
\* with no update_chunk_metadata of id in between contains the chunk id with
\* the content and the metadata of the call (the empty object when omitted).
C6_AddThenGetChunks ==
    op.name = "get_chunks" =>
        \A id \in DOMAIN added :
            (added[id].ok /\ ~added[id].touched) =>
                /\ IsOk(ret)
                /\ \E i \in 1..Len(ret.val) :
                      ret.val[i] = [chunk_id |-> id,
                                    content |-> added[id].content,
                                    metadata |-> Supplied(added[id].metadata)]

C6_Witness ==
    /\ op.name = "get_chunks"
    /\ Len(ret.val) >= 2
    /\ \E id \in DOMAIN added :
          /\ added[id].ok /\ ~added[id].touched
          /\ added[id].metadata = NoneJson

\* C7: for every vector v an add_chunk of the instance inserted, search(v, 1)
\* returns the chunk added with v as its top result, at distance 0 (stated
\* for the signatures tagged _fp32, whose encoding is supported).
C7_SearchFindsInserted ==
    ( /\ op.name = "search"
      /\ op.top_k = 1
      /\ ends_with(model_signature, Fp32Suffix) )
    => \A id \in DOMAIN added :
          added[id].embedding = op.query_vector =>
              /\ IsOk(ret)
              /\ Len(ret.val) >= 1
              /\ ret.val[1].chunk.chunk_id = id
              /\ ret.val[1].distance = 0

\* C8: update_chunk_metadata with a chunk_id of no Chunk row returns NotFound
\* and changes neither store, nor the id list, nor the graph.
C8_UpdateUnknownId ==
    [][ ( /\ Live
          /\ op'.name = "update_chunk_metadata"
          /\ op'.chunk_id \notin ChunkIdsOf(Conn) )
        => /\ IsErr(ret', "NotFound")
           /\ UNCHANGED <<disk, mem, index, id_to_chunk_id>> ]_vars

C8_Witness ==
    /\ op.name = "update_chunk_metadata"
    /\ IsErr(ret, "NotFound")
    /\ Len(Conn.chunks) >= 1

\* C9: open_in_memory and every later call on the instance it returns leave
\* the store on disk as it was.
C9_InMemoryLeavesDisk ==
    [][ ( \/ op'.name = "open_in_memory"
          \/ origin = "open_in_memory" /\ op'.name \notin Constructors )
        => disk' = disk ]_vars

C9_Witness ==
    /\ origin = "open_in_memory"
    /\ Len(mem.chunks) > Len(disk.chunks)
    /\ \E i \in 1..Len(disk.chunks) : mem.chunks[i] # disk.chunks[i]

\* C10: reopening the store of a file-backed instance under the same
\* signature gives an instance on which every query returns the same chunk
\* ids in the same order as on the instance before the reopen (stated for
\* the signatures tagged _fp32, whose encoding is supported).
C10_ReopenSameResults ==
    [][ ( /\ origin \in {"create", "open"}
          /\ ends_with(model_signature, Fp32Suffix)
          /\ op'.name \in {"open", "open_in_memory"}
          /\ IsOk(ret')
          /\ op'.sig = model_signature )
        => \A q \in Vectors, k \in TopKs :
              {ResultIds(out) :
                  out \in SearchOutcomes(Conn', index', id_to_chunk_id', q, k)}
              = {ResultIds(out) :
                  out \in SearchOutcomes(Conn, index, id_to_chunk_id, q, k)} ]_vars

\* a signature tagged with an encoding other than fp32, e.g. "m_int8"
OtherEncoding(sig) == contains(sig, "_") /\ ~ends_with(sig, Fp32Suffix)

\* C11: add_chunk with an fp32 vector on an instance bound to a signature
\* tagged with another encoding fails with the representation-mismatch error
\* before any transaction: no row is written to either store and the id list
\* and the graph are unchanged (stated for the calls in which the storage
\* engine reports no failure; a call that opens no transaction meets none).
C11_MismatchRejected ==
    [][ ( /\ Live
          /\ op'.name = "add_chunk"
          /\ OtherEncoding(model_signature)
          /\ ~IsErr(ret', "Rusqlite") )
        => /\ ret' = Err("InvalidData", MsgMismatch)
           /\ UNCHANGED <<disk, mem, index, id_to_chunk_id>> ]_vars

\* the vector a call of add_chunk or search was given
VectorOf(o) == IF o.name = "add_chunk" THEN o.embedding ELSE o.query_vector

\* C12: add_chunk or search with a vector of another length than the vectors
\* resident in the graph returns the invalid-input error, a typed outcome and
\* no abort, and writes no row to either store (stated for the calls in which
\* neither the storage engine nor a lock fails).
C12_LengthRejected ==
    [][ ( /\ Live
          /\ op'.name \in {"add_chunk", "search"}
          /\ index.kind = "F32"
          /\ ~poisoned
          /\ LengthsDiffer(index, VectorOf(op'))
          /\ ~IsErr(ret', "Rusqlite") )
        => /\ IsErr(ret', "InvalidData")
           /\ disk' = disk
           /\ mem' = mem ]_vars

\* C13: open (or open_in_memory) of an existing store under a signature
\* tagged with an unrecognized encoding succeeds and leaves the index
\* disabled, and on an instance whose index is disabled every search returns
\* the empty result, never an error.
C13_DisabledSearchEmpty ==
    /\ ( /\ op.name \in {"open", "open_in_memory"}
         /\ OtherEncoding(op.sig)
         /\ disk.exists )
       => /\ IsOk(ret)
          /\ model_signature = op.sig
          /\ index.kind = "None"
    /\ (Live /\ op.name = "search" /\ index.kind = "None") => ret = Ok(<<>>)

C13_Witness ==
    /\ origin = "open"
    /\ OtherEncoding(model_signature)
    /\ IndexRecordsOf(disk, model_signature) # {}
    /\ index.kind = "None"
    /\ op.name = "search"
    /\ ret = Ok(<<>>)

\* C14: on an instance whose index is disabled, an add_chunk in which the
\* storage engine reports no failure returns the error of the disabled index
\* ("No supported index loaded."), commits the new Chunk row and its
\* IndexRecord all the same, and leaves the id list and the graph unchanged.
C14_DisabledAddCommits ==
    [][ ( /\ Live
          /\ op'.name = "add_chunk"
          /\ index.kind = "None"
          /\ ~IsErr(ret', "Rusqlite") )
        => /\ ret' = Err("InvalidData", MsgNoIndex)
           /\ Len(Conn'.chunks) = Len(Conn.chunks) + 1
           /\ Len(Conn'.indices) = Len(Conn.indices) + 1
           /\ UNCHANGED <<index, id_to_chunk_id>> ]_vars

\* the operations that take the lock of the index or of the id list
LockingOps == {"add_chunk", "search", "get_index_type_description"}

\* C15: no call ends in an abort (a panic unwinding out of it), and a call
\* of add_chunk, search or get_index_type_description that finds the locks
\* poisoned returns an error value.
C15_LockFailureNoAbort ==
    /\ ~IsPanic(ret)
    /\ (poisoned /\ op.name \in LockingOps) => ret.st = "Err"

\* C16: create at a location that holds a store discards all of it: the
\* instance it returns is on a store without Chunk rows and without
\* IndexRecords of any signature, whose manifest holds exactly the
\* format-version entry, its id list is empty, and get_chunks on it returns
\* nothing until an add_chunk of the instance commits.
C16_CreateDiscards ==
    /\ op.name = "create" =>
          /\ IsOk(ret)
          /\ origin = "create"
          /\ disk.exists
          /\ disk.chunks = <<>>
          /\ disk.indices = <<>>
          /\ disk.manifest = {<<"spec_version", SPEC_VERSION>>}
          /\ id_to_chunk_id = <<>>
    /\ (origin = "create" /\ DOMAIN added = {} /\ op.name = "get_chunks") =>
          ret = Ok(<<>>)

C16_Witness ==
    /\ op.name = "create"
    /\ op.removed >= 2
    /\ IsOk(ret)
    /\ disk.chunks = <<>>

\* C17: the manifest is written by create and by nothing else: every store
\* holds exactly the format-version entry create wrote, whatever add_chunk,
\* update_chunk_metadata, search, get_chunks, open and open_in_memory did since,
\* and get_spec_version returns that version marker.
C17_ManifestWrittenOnce ==
    /\ disk.exists => disk.manifest = {<<"spec_version", SPEC_VERSION>>}
    /\ mem.exists => mem.manifest = {<<"spec_version", SPEC_VERSION>>}
    /\ (Live /\ op.name = "get_spec_version") => ret = Ok(SPEC_VERSION)

C17_Witness ==
    /\ origin = "open_in_memory"
    /\ op.name = "get_spec_version"
    /\ ret = Ok(SPEC_VERSION)
    /\ Len(mem.chunks) > Len(disk.chunks)
    /\ \E id \in DOMAIN added : added[id].touched

\* the IndexRecords of the store under other signatures than sig
OtherRecords(db, sig) == {r \in Range(db.indices) : r.model_signature # sig}

\* C18: the signature of an instance never changes; every IndexRecord a call
\* on it writes carries that signature, and the records of other signatures
\* in its store are neither modified nor removed; the id list and the graph
\* hold only chunks that have an IndexRecord of the bound signature, each
\* graph point being the vector of that record.
C18_BoundSignature ==
    [][ /\ (Live /\ op'.name \notin Constructors) =>
              /\ model_signature' = model_signature
              /\ OtherRecords(Conn', model_signature) = OtherRecords(Conn, model_signature)
              /\ \A r \in Range(Conn'.indices) \ Range(Conn.indices) :
                    r.model_signature = model_signature
        /\ \A i \in 1..Len(id_to_chunk_id') :
              \E r \in IndexRecordsOf(Conn', model_signature') :
                 r.chunk_id = id_to_chunk_id'[i]
        /\ \A p \in Range(index'.points) :
              /\ p.d_id < Len(id_to_chunk_id')
              /\ \E r \in IndexRecordsOf(Conn', model_signature') :
                    /\ r.chunk_id = id_to_chunk_id'[p.d_id + 1]
                    /\ DecodeVector(r.data) = p.v ]_vars

C18_Witness ==
    /\ origin = "open"
    /\ index.kind = "F32"
    /\ Len(id_to_chunk_id) >= 1
    /\ OtherRecords(disk, model_signature) # {}
    /\ op.name = "update_chunk_metadata"
    /\ IsOk(ret)
    /\ op.chunk_id \notin Range(id_to_chunk_id)

\* C19: the writer and the loader classify every signature alike: add_chunk
\* lets an fp32 vector past its representation check exactly under the
\* signatures load_index_from_db dispatches to the f32 branch.
C19_WriterLoaderAgree ==
    ( /\ Live
      /\ op.name = "add_chunk"
      /\ ~IsErr(ret, "Rusqlite") )
    => ( ret # Err("InvalidData", MsgMismatch) <=> LoaderIsF32(model_signature) )

\* C20: the id list never runs ahead of the store: in every state, and
\* after each statement of an add_chunk, every chunk of the id list has a
\* committed Chunk row and a committed IndexRecord of the bound signature, so
\* the chunk lookup of search finds a row for every neighbor and search
\* returns Ok.
C20_IdListBehindStore ==
    Live =>
        /\ IdListCommitted(Conn, model_signature, id_to_chunk_id)
        /\ \A id \in DOMAIN added : ~added[id].ahead
        /\ op.name = "search" => IsOk(ret)

C20_Witness ==
    /\ op.name = "search"
    /\ IsOk(ret)
    /\ Len(ret.val) >= 1
    /\ \E id \in DOMAIN added :
          /\ added[id].ok
          /\ ret.val[1].chunk.chunk_id = id

\* the chunk ids of the IndexRecords of sig in db, ascending
SortedRecordIds(db, sig) == SortedSeq({r.chunk_id : r \in IndexRecordsOf(db, sig)})

\* C21: after open (or open_in_memory) the id list is the chunk ids of the
\* IndexRecords of the bound signature in ascending order and the graph holds,
\* at dense id i, the vector of the record at position i of that order; an
\* add_chunk on the opened instance that the storage engine does not fail
\* inserts its vector at the dense id equal to the length of the id list and
\* appends its chunk_id there (stated for the signatures tagged _fp32).
C21_OpenOrderThenAppend ==
    [][ /\ ( /\ op'.name \in {"open", "open_in_memory"}
             /\ IsOk(ret')
             /\ ends_with(model_signature', Fp32Suffix) )
           => /\ id_to_chunk_id' = SortedRecordIds(Conn', model_signature')
              /\ \A i \in 1..Len(id_to_chunk_id') :
                    \E r \in IndexRecordsOf(Conn', model_signature') :
                       /\ r.chunk_id = id_to_chunk_id'[i]
                       /\ [v |-> DecodeVector(r.data), d_id |-> i - 1]
                             \in Range(index'.points)
        /\ ( /\ origin \in {"open", "open_in_memory"}
             /\ op'.name = "add_chunk"
             /\ ends_with(model_signature, Fp32Suffix)
             /\ ~IsErr(ret', "Rusqlite") )
           => /\ IsOk(ret')
              /\ id_to_chunk_id' = Append(id_to_chunk_id, ret'.val)
              /\ index'.points = Append(index.points,
                                    [v |-> op'.embedding,
                                     d_id |-> Len(id_to_chunk_id)]) ]_vars

C23_ReadersSeeConsistentIndex ==
    /\ ~IsPanic(ret)
    /\ ~locks.index.writer => \A p \in Range(index.points) : p.d_id < Len(id_to_chunk_id)
    /\ \A t \in Readers :
          calls[t].pc \in {"searched", "id_map_read"} =>
              \A i \in 1..Len(calls[t].neighbors) :
                 calls[t].neighbors[i].d_id < Len(id_to_chunk_id)
    /\ locks.index.writer => locks.index.readers = {}
    /\ locks.id_map.writer => locks.id_map.readers = {}

C23_Witness ==
    /\ locks.index.readers = Readers
    /\ locks.id_map.readers = Readers
    /\ Len(id_to_chunk_id) = 2
    /\ \E t \in Readers :
          /\ calls[t].pc = "id_map_read"
          /\ \E i \in 1..Len(calls[t].neighbors) : calls[t].neighbors[i].d_id = 1

\* s is a prefix of t
IsPrefix(s, t) == Len(s) <= Len(t) /\ SubSeq(t, 1, Len(s)) = s

\* C24: within one instance the index only grows: every call other than a
\* constructor leaves the id list and the entries of the graph a prefix of
\* what they are after it, in the same order, and leaves a populated (F32)
\* index populated.
C24_IndexOnlyGrows ==
    [][ (Live /\ op'.name \notin Constructors) =>
            /\ IsPrefix(id_to_chunk_id, id_to_chunk_id')
            /\ IsPrefix(index.points, index'.points)
            /\ index.kind = "F32" => index'.kind = "F32" ]_vars

C24_Witness ==
    /\ index.kind = "F32"
    /\ Len(id_to_chunk_id) >= 2
    /\ Len(index.points) >= 2
    /\ op.name = "update_chunk_metadata"
    /\ IsOk(ret)
    /\ \E id \in DOMAIN added : added[id].ok /\ added[id].touched

\* C25: the disabled index is terminal for an instance: on an instance whose
\* index is disabled no add_chunk, search, get_chunks, update_chunk_metadata
\* or small query changes the index or the id list, no add_chunk returns Ok
\* and every search returns the empty result.
C25_DisabledIsTerminal ==
    [][ (Live /\ index.kind = "None" /\ op'.name \notin Constructors) =>
            /\ index' = index
            /\ id_to_chunk_id' = id_to_chunk_id
            /\ op'.name = "add_chunk" => ~IsOk(ret')
            /\ op'.name = "search" => ret' = Ok(<<>>) ]_vars

C25_Witness ==
    /\ index.kind = "None"
    /\ op.name = "add_chunk"
    /\ ret = Err("InvalidData", MsgNoIndex)
    /\ Cardinality({id \in DOMAIN added : ~added[id].ok}) >= 2

\* no Chunk row of db has another content in db2
ContentKept(db, db2) ==
    \A r \in Range(db.chunks), r2 \in Range(db2.chunks) :
        r.chunk_id = r2.chunk_id => r.content = r2.content

\* C26: an update_chunk_metadata(chunk_id, m) that returns Ok changes the
\* metadata of the Chunk row of chunk_id to m and nothing else: the content
\* of that row, the other Chunk rows, the IndexRecords, the manifest, the
\* store the instance is not connected to, the id list and the graph are
\* unchanged; and no operation changes the content of a chunk of a store.
C26_UpdateChangesMetadataOnly ==
    [][ /\ (Live /\ op'.name = "update_chunk_metadata" /\ IsOk(ret')) =>
              /\ Len(Conn'.chunks) = Len(Conn.chunks)
              /\ \A i \in 1..Len(Conn.chunks) :
                    Conn'.chunks[i] =
                        IF Conn.chunks[i].chunk_id = op'.chunk_id
                        THEN [Conn.chunks[i] EXCEPT
                                 !.metadata = JsonToString(op'.new_metadata)]
                        ELSE Conn.chunks[i]
              /\ Conn'.indices = Conn.indices
              /\ Conn'.manifest = Conn.manifest
              /\ InMemory => disk' = disk
              /\ ~InMemory => mem' = mem
              /\ UNCHANGED <<index, id_to_chunk_id>>
        /\ ContentKept(disk, disk')
        /\ ContentKept(mem, mem') ]_vars

C26_Witness ==
    /\ op.name = "update_chunk_metadata"
    /\ IsOk(ret)
    /\ \E i, j \in 1..Len(Conn.chunks) :
          /\ Conn.chunks[i].chunk_id = op.chunk_id
          /\ Conn.chunks[i].content = "x"
          /\ Conn.chunks[i].metadata = JsonToString(op.new_metadata)
          /\ Conn.chunks[j].chunk_id # op.chunk_id
          /\ Conn.chunks[j].metadata = "{}"
    /\ Len(id_to_chunk_id) >= 1

\* C27: on a usable (F32) index search(query, top_k) returns Ok with at most
\* top_k results and at most as many as the id list has entries, in order of
\* non-decreasing distance, no chunk_id twice, and each result is the Chunk
\* row of the id-list entry at the dense id of a graph entry, with the
\* distance of that entry from the query.
C27_SearchResultShape ==
    (Live /\ op.name = "search" /\ index.kind = "F32") =>
        /\ IsOk(ret)
        /\ Len(ret.val) <= op.top_k
        /\ Len(ret.val) <= Len(id_to_chunk_id)
        /\ \A i, j \in 1..Len(ret.val) :
              i < j => /\ ret.val[i].distance <= ret.val[j].distance
                       /\ ret.val[i].chunk.chunk_id # ret.val[j].chunk.chunk_id
        /\ \A j \in 1..Len(ret.val) :
              \E p \in Range(index.points) :
                 /\ p.d_id < Len(id_to_chunk_id)
                 /\ ret.val[j].distance = DistCosine(op.query_vector, p.v)
                 /\ ret.val[j].chunk.chunk_id = id_to_chunk_id[p.d_id + 1]
                 /\ \E row \in Range(Conn.chunks) :
                       /\ row.chunk_id = id_to_chunk_id[p.d_id + 1]
                       /\ ret.val[j].chunk = ChunkFromRow(row)

C27_Witness ==
    /\ op.name = "search"
    /\ index.kind = "F32"
    /\ op.top_k = 2
    /\ IsOk(ret)
    /\ Len(ret.val) = 2
    /\ ret.val[1].distance < ret.val[2].distance
    /\ ret.val[1].chunk.content # ret.val[2].chunk.content

\* C28: the codec round trip: the blob add_chunk stores for a vector v has
\* 4 bytes per element, each a byte value, and decoding it in 4-byte
\* little-endian windows gives v back, with the same number of elements in
\* the same order.
C28_CodecRoundTrip ==
    /\ op.name = "encoded" =>
          /\ Len(ret.val) = 4 * Len(op.v)
          /\ \A i \in 1..Len(ret.val) : ret.val[i] \in 0..255
          /\ \A i \in 1..Len(op.v) :
                SubSeq(ret.val, 4 * i - 3, 4 * i) = to_le_bytes(op.v[i])
    /\ op.name = "decoded" =>
          /\ Len(ret.val) = Len(op.v)
          /\ ret.val = op.v

C28_Witness ==
    /\ op.name = "decoded"
    /\ Len(op.v) = 2
    /\ op.v[1] # op.v[2]
    /\ op.v[1].m = 65793
    /\ op.v[2].e = 255
    /\ ret.val = op.v

\* C29: lock acquisition is deadlock-free: a call of search that holds the
\* read guard of the index, and a call of add_chunk that has committed and
\* goes on to take the locks, gets every lock it asks for and returns.
C29_LocksDeadlockFree ==
    \A t \in Callers : (calls[t].pc # "idle") ~> (calls[t].pc = "idle")

\* the file of an in-memory instance is the persisted store; an open
\* instance has no store in memory
StoreKept(w) ==
    /\ w.origin = "open_in_memory" => w.disk = twin.store
    /\ w.origin = "open" => w.mem = NoDb

\* the file of the open instance has the chunk added to the one-chunk store
FileGrew(w) ==
    /\ w.origin = "open"
    /\ Len(w.disk.chunks) = 2
    /\ Len(twin.store.chunks) = 1

\* the second instance is to take the call the first instance took
SecondAsked == twin.turn = "second" /\ op.name = "ready"

\* the second instance has taken the call
SecondAnswered == twin.turn = "second" /\ op.name # "ready"

\* the second instance can take the call of the first with the same result
\* and end in the same state; search changes no state, so there it is enough
\* that the result of the first is one the second may return
SecondCanAnswer ==
    IF twin.world.op.name = "search"
    THEN /\ origin # "none"
         /\ twin.world.ret \in SearchReturns(twin.world.op.query_vector,
                                              twin.world.op.top_k)
         /\ Related(World, twin.world)
    ELSE ENABLED SecondCall

\* after the same calls the two instances are in the same state and returned
\* the same
SecondAgrees ==
    IF SecondAnswered
    THEN /\ Related(World, twin.world)
         /\ SameRet(ret, twin.world.ret)
         /\ StoreKept(World)
         /\ StoreKept(twin.world)
    ELSE StoreKept(World) /\ StoreKept(twin.world)

\* C30: open and open_in_memory are equivalent: made from the same store
\* with the same signature and given the same calls, whatever the one
\* returns the other can return, leaving the same index state, id list and
\* store content behind; the file of the in-memory instance stays as it was
\* and the open instance has no store but the file.
C30_OpenEquivalent ==
    /\ SecondAsked => SecondCanAnswer
    /\ SecondAgrees

\* both instances hold a graph of two points after the same add_chunk, and
\* only the file of the open instance has the new chunk
C30_Witness ==
    /\ twin.turn = "second"
    /\ op.name = "add_chunk"
    /\ IsOk(ret)
    /\ index.kind = "F32"
    /\ Len(id_to_chunk_id) = 2
    /\ {origin, twin.world.origin} = {"open", "open_in_memory"}
    /\ FileGrew(World) \/ FileGrew(twin.world)

\* the chunk ids and the distances of a result of search, in the order
\* returned
HitsOf(r) ==
    [st |-> r.st,
     hits |-> IF IsOk(r)
              THEN [i \in 1..Len(r.val) |->
                       <<r.val[i].chunk.chunk_id, r.val[i].distance>>]
              ELSE <<>>]

\* what the searches of the model may return on the live graph and id list
\* with the store db, as chunk ids and distances
HitsOn(db) ==
    [q \in Vectors, k \in TopKs |->
        {HitsOf(r) : r \in SearchOutcomes(db, index, id_to_chunk_id, q, k)}]

\* every chunk of the result that the instance added and then updated has
\* the metadata of the update
CarriesUpdate ==
    (op.name = "search" /\ IsOk(ret)) =>
        \A j \in 1..Len(ret.val) :
           LET id == ret.val[j].chunk.chunk_id
           IN  (id \in DOMAIN added /\ added[id].touched) =>
                  ret.val[j].chunk.metadata \in UpdateJson

\* C31: search reads the chunk rows at query time: a result of search has,
\* for a chunk updated before by update_chunk_metadata(id, m), the metadata
\* m; and update_chunk_metadata changes nothing about which chunk ids a
\* query may return, in which order and at which distances: it leaves the
\* graph, the id list and the locks alone, and the store it leaves gives
\* every query the same chunk ids and distances as the store it found.
C31_SearchReadsStore ==
    [][ /\ CarriesUpdate'
        /\ op'.name = "update_chunk_metadata" =>
              LET updated == UpdateMetadataRows(Conn, op'.chunk_id,
                                 JsonToString(op'.new_metadata))
              IN  /\ Conn' = updated
                  /\ UNCHANGED <<index, id_to_chunk_id, poisoned>>
                  /\ HitsOn(updated) = HitsOn(Conn) ]_vars

\* a search returns, with the metadata of the update, a chunk that was added
\* without metadata
C31_Witness ==
    /\ op.name = "search"
    /\ IsOk(ret)
    /\ \E j \in 1..Len(ret.val) :
          LET id == ret.val[j].chunk.chunk_id
          IN  /\ id \in DOMAIN added
              /\ added[id].touched
              /\ added[id].metadata = NoneJson
              /\ ret.val[j].chunk.metadata = JsonA1
====
